---- MODULE Spec2Model ----
(***************************************************************************)
(* Kinostar: the retrieval / caching / aggregation pipeline.               *)
(*                                                                         *)
(*   cache.py   Cache            file-based TTL cache                      *)
(*   config.py  Theater, Config  configured theaters and title filters     *)
(*   app.py     MovieShowtimesApp  fetch fan-out, aggregation, rendering   *)
(*                                                                         *)
(* Three specifications share the variables:                               *)
(*   SpecCache  the Cache API driven directly (set, get, clock, external   *)
(*              corruption of a cache file)                                *)
(*   Spec       the application: on_mount, the per-theater fetch tasks,    *)
(*              refresh_ui, the theater search                             *)
(*   SpecAgg    _process_theater_shows applied to bounded show lists       *)
(*                                                                         *)
(* Text is a sequence of one-character strings, so that str(), ':'.join    *)
(* and str.lower() are computed rather than assumed.  The clock is         *)
(* time.time() in whole seconds and is taken to be monotonic.              *)
(***************************************************************************)
EXTENDS Integers, Sequences, FiniteSets, TLC

VARIABLES
    files,            \* the cache directory: cache path -> file content
    now,              \* time.time()
    ret,              \* SpecCache: the get() just made and its outcome, if the last call was one
    lastSet,          \* SpecCache (history): the last set(), until its file is overwritten from outside
    gone,             \* SpecCache (history): paths a get() found expired, until written again
    theaters,         \* Config.theaters
    global_filter,    \* Config.global_filter
    pc,               \* where the application is: "init", "loading", "mounted", "crashed"
    task,             \* the per-theater fetch tasks of load_showtimes, by position
    theaters_data,    \* MovieShowtimesApp.theaters_data (an insertion-ordered dict)
    sort_by_release,  \* MovieShowtimesApp.sort_by_release
    group_by_theater, \* MovieShowtimesApp.group_by_theater
    screen,           \* the widgets mounted in #content, in order
    search,           \* the search_theaters_by_city call under way, or the last one
    agg_in,           \* SpecAgg: the arguments of _process_theater_shows
    agg_out           \* SpecAgg: its result

cacheVars == <<files, now>>
apiVars == <<ret, lastSet, gone>>
configVars == <<theaters, global_filter>>
appVars == <<pc, task, theaters_data, sort_by_release, group_by_theater, screen>>
aggVars == <<agg_in, agg_out>>
vars == <<files, now, ret, lastSet, gone, theaters, global_filter, pc, task,
          theaters_data, sort_by_release, group_by_theater, screen, search,
          agg_in, agg_out>>

(***************************************************************************)
(* Bounds                                                                  *)
(***************************************************************************)
\* The clock runs over MaxPeriods cache periods.
MaxPeriods == 1
\* SpecAgg: show lists of up to MaxShows records.
MaxShows == 3
\* Spec: configurations of up to MaxTheaters theaters.
MaxTheaters == 2

(***************************************************************************)
(* Python / JSON values.  Every value is a record whose first field, kind, *)
(* tells its type; the values the program caches all come out of           *)
(* response.json(), so json.dump followed by json.load gives them back.    *)
(***************************************************************************)
PyNone == [kind |-> "null"]
PyInt(n) == [kind |-> "int", val |-> n]
PyStr(s) == [kind |-> "str", val |-> s]
PyList(s) == [kind |-> "list", val |-> s]
PyDict(f) == [kind |-> "dict", val |-> f]

\* dict.get(key, default)
DictGet(d, key, default) ==
    IF key \in DOMAIN d.val THEN d.val[key] ELSE default

DigitChars == <<"0", "1", "2", "3", "4", "5", "6", "7", "8", "9">>

RECURSIVE IntToStr(_)
IntToStr(n) ==
    IF n < 10 THEN <<DigitChars[n + 1]>>
    ELSE IntToStr(n \div 10) \o <<DigitChars[(n % 10) + 1]>>

\* str(arg) for the argument types the cache keys are built from
Str(arg) ==
    IF arg.kind = "int" THEN IntToStr(arg.val) ELSE arg.val

\* The text as one string, for use as a dict key.
RECURSIVE Cat(_)
Cat(chars) ==
    IF chars = <<>> THEN "" ELSE Head(chars) \o Cat(Tail(chars))

\* bool(value)
Truthy(v) ==
    CASE v.kind = "null" -> FALSE
      [] v.kind = "int" -> v.val # 0
      [] v.kind = "str" -> Len(v.val) # 0
      [] v.kind = "list" -> Len(v.val) # 0
      [] v.kind = "dict" -> DOMAIN v.val # {}

\* a or b
PyOr(a, b) == IF Truthy(a) THEN a ELSE b

\* sep.join(parts)
RECURSIVE Join(_, _)
Join(sep, parts) ==
    IF Len(parts) = 0 THEN <<>>
    ELSE IF Len(parts) = 1 THEN parts[1]
    ELSE parts[1] \o sep \o Join(sep, Tail(parts))

(***************************************************************************)
(* cache.py                                                                *)
(***************************************************************************)
CACHE_DURATION == 3600

\* hashlib.sha256(...).hexdigest(): taken to be collision free, so the digest
\* is the hashed text under a tag.
Sha256Hex(text) == <<"sha256">> \o text

KeyData(prefix, args) ==
    prefix \o <<":">> \o Join(<<":">>, [i \in 1..Len(args) |-> Str(args[i])])

_get_cache_key(prefix, args) == Sha256Hex(KeyData(prefix, args))

_get_cache_path(cache_key) == cache_key \o <<".json">>

CachePath(prefix, args) == _get_cache_path(_get_cache_key(prefix, args))

\* What a cache file holds: JSON text (of the document doc), or text that
\* json.load rejects with JSONDecodeError (a truncated or overwritten file).
NoFile == [kind |-> "nofile"]
Garbage == [kind |-> "garbage"]
JsonDump(obj) == [kind |-> "json", doc |-> obj]
JsonLoad(content) == content.doc

FileAt(fs, path) == IF path \in DOMAIN fs THEN fs[path] ELSE NoFile

\* cache_path.unlink()
Unlink(fs, path) == [p \in DOMAIN fs \ {path} |-> fs[p]]

\* open(cache_path, "w") + json.dump
WriteFile(fs, path, content) == (path :> content) @@ fs

Returned(value, fs) == [exc |-> "none", value |-> value, files |-> fs]
Raised(exc, fs) == [exc |-> exc, value |-> PyNone, files |-> fs]

ExpiredAtBoundary(current_time, timestamp) ==
    current_time - timestamp >= CACHE_DURATION

ExpiredNever(current_time, timestamp) ==
    current_time - timestamp > (MaxPeriods + 2) * CACHE_DURATION

\* cache.py:56
Expired(current_time, timestamp) ==
    current_time - timestamp > CACHE_DURATION

\* A get that stamps the entry it returns with the time of the read.
CacheGetSliding(fs, prefix, args, current_time) ==
    LET cache_path == CachePath(prefix, args) IN
    IF cache_path \notin DOMAIN fs THEN Returned(PyNone, fs)
    ELSE IF fs[cache_path].kind = "garbage"
    THEN Returned(PyNone, Unlink(fs, cache_path))
    ELSE
        LET cached_data == JsonLoad(fs[cache_path]) IN
        IF cached_data.kind # "dict"
        THEN Raised("AttributeError", fs)
        ELSE
            LET timestamp == DictGet(cached_data, "timestamp", PyInt(0)) IN
            IF timestamp.kind # "int"
            THEN Raised("TypeError", fs)
            ELSE IF Expired(current_time, timestamp.val)
            THEN Returned(PyNone, Unlink(fs, cache_path))
            ELSE Returned(DictGet(cached_data, "data", PyNone),
                          WriteFile(fs, cache_path,
                                    JsonDump(PyDict([timestamp |-> PyInt(current_time),
                                                     data |-> DictGet(cached_data, "data",
                                                                      PyNone)]))))

\* Cache.get: the value returned (or the exception that escapes) and the
\* cache directory afterwards.
CacheGet(fs, prefix, args, current_time) ==
    LET cache_path == CachePath(prefix, args) IN
    IF cache_path \notin DOMAIN fs THEN Returned(PyNone, fs)
    ELSE IF fs[cache_path].kind = "garbage"
    THEN Returned(PyNone, Unlink(fs, cache_path))  \* except JSONDecodeError
    ELSE
        LET cached_data == JsonLoad(fs[cache_path]) IN
        IF cached_data.kind # "dict"
        THEN Raised("AttributeError", fs)           \* cached_data.get
        ELSE
            LET timestamp == DictGet(cached_data, "timestamp", PyInt(0)) IN
            IF timestamp.kind # "int"
            THEN Raised("TypeError", fs)            \* current_time - timestamp
            ELSE IF Expired(current_time, timestamp.val)
            THEN Returned(PyNone, Unlink(fs, cache_path))
            ELSE Returned(DictGet(cached_data, "data", PyNone), fs)

\* The ways the write of Cache.set can go: it succeeds, open() fails, or the
\* write fails after open() truncated the file.  OSError is swallowed.
WriteOutcomes == {"ok", "open_fails", "write_fails"}

\* Cache.set: the cache directory afterwards.
CacheSet(fs, prefix, data, args, current_time, io) ==
    LET cache_path == CachePath(prefix, args)
        cached_data == PyDict([timestamp |-> PyInt(current_time), data |-> data])
    IN  CASE io = "ok" -> WriteFile(fs, cache_path, JsonDump(cached_data))
          [] io = "open_fails" -> fs
          [] io = "write_fails" -> WriteFile(fs, cache_path, Garbage)

(***************************************************************************)
(* The clock                                                               *)
(***************************************************************************)
\* time.time() is far beyond one cache period after the epoch.
StartTime == 2 * CACHE_DURATION

\* The instants looked at: the start, and each later period's boundary and
\* the second after it.
Times ==
    {StartTime} \cup
    {StartTime + k * CACHE_DURATION + e : k \in 1..MaxPeriods, e \in {0, 1}}

NoCall == [op |-> "none"]

Tick ==
    /\ \E t \in Times : t > now /\ now' = t
    /\ ret' = NoCall
    /\ UNCHANGED <<files, lastSet, gone, configVars, appVars, search, aggVars>>

(***************************************************************************)
(* The parts of the state a specification does not use stay as they are    *)
(* here.                                                                   *)
(***************************************************************************)
\* Config._load_defaults: one theater, no filters.
DefaultTheater ==
    [name |-> <<"K", "i", "n", "o">>, cinema_id |-> PyInt(3625), filter |-> PyNone]

IdleConfig ==
    /\ theaters = <<DefaultTheater>>
    /\ global_filter = PyNone

\* MovieShowtimesApp.__init__ and compose()
IdleApp ==
    /\ pc = "init"
    /\ task = <<>>
    /\ theaters_data = <<>>
    /\ sort_by_release = FALSE
    /\ group_by_theater = TRUE
    /\ screen = <<[widget |-> "Label", text |-> <<"Loading showtimes...">>,
                   movie |-> [kind |-> "null"]]>>
    /\ search = NoCall

IdleAgg ==
    /\ agg_in = NoCall
    /\ agg_out = NoCall

(***************************************************************************)
(* SpecCache: the Cache API driven directly                                *)
(***************************************************************************)
Chars_n == <<"n">>

\* (namespace, key_parts) tuples: parts that differ only in type, parts that
\* hold a ':', and tuples that share no key with the others.
KeyTuples ==
    { [prefix |-> Chars_n, args |-> <<PyInt(1)>>],
      [prefix |-> Chars_n, args |-> <<PyStr(<<"1">>)>>],
      [prefix |-> Chars_n, args |-> <<PyStr(<<"1">>), PyStr(<<"2">>)>>],
      [prefix |-> Chars_n, args |-> <<PyStr(<<"1", ":", "2">>)>>] }

TuplePath(t) == CachePath(t.prefix, t.args)

\* Payloads handed to set().
ApiPayloads ==
    { PyDict([shows |-> PyList(<<>>)]),
      PyDict([shows |-> PyList(<<>>), movies |-> PyDict(<<>>)]) }

\* What an external writer can leave in a cache file.
CorruptContents ==
    { Garbage,
      JsonDump(PyList(<<>>)),
      JsonDump(PyDict([data |-> PyDict(<<>>)])),
      JsonDump(PyDict([timestamp |-> PyStr(<<"x">>), data |-> PyDict(<<>>)])),
      JsonDump(PyDict([timestamp |-> PyInt(StartTime)])) }

IdleApi ==
    /\ ret = NoCall
    /\ lastSet = NoCall
    /\ gone = {}

InitCache ==
    /\ files = <<>>
    /\ now = StartTime
    /\ IdleApi
    /\ IdleConfig
    /\ IdleApp
    /\ IdleAgg

ApiSet(t, data, io) ==
    /\ files' = CacheSet(files, t.prefix, data, t.args, now, io)
    /\ ret' = NoCall
    /\ lastSet' = [op |-> "set", tuple |-> t, path |-> TuplePath(t), data |-> data,
                   at |-> now, io |-> io]
    /\ gone' = gone \ {TuplePath(t)}
    /\ UNCHANGED <<now, configVars, appVars, search, aggVars>>

\* The file holds an entry whose stored timestamp is more than the TTL old.
IsExpiredEntry(content, current_time) ==
    /\ content.kind = "json"
    /\ content.doc.kind = "dict"
    /\ "timestamp" \in DOMAIN content.doc.val
    /\ content.doc.val["timestamp"].kind = "int"
    /\ current_time - content.doc.val["timestamp"].val > CACHE_DURATION

ApiGet(t) ==
    LET out == CacheGet(files, t.prefix, t.args, now)
        before == FileAt(files, TuplePath(t))
    IN  /\ files' = out.files
        /\ ret' = [op |-> "get", tuple |-> t, path |-> TuplePath(t),
                   before |-> before, exc |-> out.exc, value |-> out.value]
        /\ gone' = IF IsExpiredEntry(before, now) THEN gone \cup {TuplePath(t)} ELSE gone
        /\ UNCHANGED <<now, lastSet, configVars, appVars, search, aggVars>>

\* Another program (or the user) overwrites a cache file.
Corrupt(path, content) ==
    /\ files' = WriteFile(files, path, content)
    /\ ret' = NoCall
    /\ lastSet' = IF lastSet.op = "set" /\ lastSet.path = path THEN NoCall ELSE lastSet
    /\ gone' = gone \ {path}
    /\ UNCHANGED <<now, configVars, appVars, search, aggVars>>

NextCache ==
    \/ \E t \in KeyTuples, data \in ApiPayloads, io \in WriteOutcomes : ApiSet(t, data, io)
    \/ \E t \in KeyTuples : ApiGet(t)
    \/ \E t \in KeyTuples, content \in CorruptContents : Corrupt(TuplePath(t), content)
    \/ Tick

SpecCache == InitCache /\ [][NextCache]_vars

(***************************************************************************)
(* Claims about the cache (checked under SpecCache)                        *)
(***************************************************************************)
\* The get just made reads the file of the last set(), made with the same
\* (namespace, key_parts), at most the TTL after it.
GetFollowsSet ==
    /\ ret.op = "get"
    /\ lastSet.op = "set"
    /\ lastSet.path = ret.path
    /\ lastSet.tuple = ret.tuple
    /\ now - lastSet.at <= CACHE_DURATION

C2_ExpiredNeverReturned ==
    /\ (ret.op = "get" /\ IsExpiredEntry(ret.before, now))
            => (ret.exc = "none" /\ ret.value = PyNone /\ ret.path \notin DOMAIN files)
    /\ \A p \in gone :
            /\ p \notin DOMAIN files
            /\ (ret.op = "get" /\ ret.path = p)
                    => (ret.exc = "none" /\ ret.value = PyNone)

\* A second get of a key whose entry an earlier get found expired and removed.
C2_Witness ==
    /\ ret.op = "get"
    /\ ret.path \in gone
    /\ ret.before = NoFile
    /\ ret.value = PyNone

\* The file is not a well-formed entry {timestamp: <number>, data: ...}.
IsCorrupted(content) ==
    \/ content.kind = "garbage"
    \/ /\ content.kind = "json"
       /\ \/ content.doc.kind # "dict"
          \/ "timestamp" \notin DOMAIN content.doc.val
          \/ content.doc.val["timestamp"].kind # "int"
          \/ "data" \notin DOMAIN content.doc.val

\* C3: a get on a key never written, or on an entry whose file is corrupted in
\* any way, returns None without raising, and the corrupted file is deleted.
C3_CorruptedIsAbsent ==
    (ret.op = "get" /\ (ret.before = NoFile \/ IsCorrupted(ret.before)))
        => (ret.exc = "none" /\ ret.value = PyNone /\ ret.path \notin DOMAIN files)

\* C4: a get on tuple A never returns a payload that was stored under another
\* tuple B (the key text of distinct tuples is distinct).
C4_KeySeparation ==
    ( /\ ret.op = "get"
      /\ ret.exc = "none"
      /\ ret.value # PyNone
      /\ lastSet.op = "set"
      /\ lastSet.io = "ok"
      /\ lastSet.path = ret.path )
        => lastSet.tuple = ret.tuple

(***************************************************************************)
(* config.py                                                               *)
(***************************************************************************)
\* Theater.__init__
Theater(name, cinema_id, filter) ==
    [name |-> name, cinema_id |-> cinema_id, filter |-> filter]

\* filter_regex = re.compile(filter) if filter else None
FilterRegex(filter) == IF Truthy(filter) THEN filter ELSE PyNone

\* regex.search(text), for a pattern made of literal characters
ReSearch(regex, text) ==
    \E i \in 1..(Len(text) - Len(regex.val) + 1) :
        SubSeq(text, i, i + Len(regex.val) - 1) = regex.val

\* Only the theater's own filter is applied.
ShouldFilterTheaterOnly(gfilter, movie_name, theater) ==
    /\ FilterRegex(theater.filter) # PyNone
    /\ ReSearch(FilterRegex(theater.filter), movie_name)

\* Config.should_filter_movie
should_filter_movie(gfilter, movie_name, theater) ==
    \/ /\ FilterRegex(gfilter) # PyNone
       /\ ReSearch(FilterRegex(gfilter), movie_name)
    \/ /\ FilterRegex(theater.filter) # PyNone
       /\ ReSearch(FilterRegex(theater.filter), movie_name)

(***************************************************************************)
(* app.py: the aggregation.  A dict built in a loop is a sequence in       *)
(* insertion order: movies is the sequence of MovieAggregates, and         *)
(* showtimes_by_date the sequence of (date, shows) groups.                 *)
(***************************************************************************)
\* The position of the aggregate called movie_name, or 0.
MovieIndex(movies, movie_name) ==
    IF \E i \in 1..Len(movies) : movies[i].name = movie_name
    THEN CHOOSE i \in 1..Len(movies) : movies[i].name = movie_name
    ELSE 0

AppendByDateFirstGroup(groups, date, show) ==
    IF Len(groups) = 0 THEN <<[date |-> date, shows |-> <<show>>]>>
    ELSE [groups EXCEPT ![1].shows = Append(@, show)]

\* showtimes_by_date[show["date"]].append(show)
AppendByDate(groups, date, show) ==
    IF \E i \in 1..Len(groups) : groups[i].date = date
    THEN LET i == CHOOSE k \in 1..Len(groups) : groups[k].date = date
         IN  [groups EXCEPT ![i].shows = Append(@, show)]
    ELSE Append(groups, [date |-> date, shows |-> <<show>>])

\* The aggregate a first record seeds (app.py:593-604).
SeedMovie(show, movies_data) ==
    LET movie_id == Str(DictGet(show, "movieId", PyStr(<<>>)))
        movie_details == DictGet(movies_data, Cat(movie_id), PyDict(<<>>))
        released == PyOr(PyOr(DictGet(movie_details, "released", PyNone),
                              DictGet(show, "released", PyNone)),
                         PyStr(<<>>))
    IN  [name |-> show.val["name"].val,
         duration |-> show.val["duration"],
         showtimes_by_date |-> <<>>,
         total_showtimes |-> 0,
         released |-> released,
         movieId |-> movie_id,
         details |-> movie_details]

\* One turn of the loop in which every record seeds the fields again.
AddShowReseed(gfilter, theater, movies_data, movies, show) ==
    LET movie_name == show.val["name"].val IN
    IF should_filter_movie(gfilter, movie_name, theater) THEN movies
    ELSE
        LET seeded == IF MovieIndex(movies, movie_name) = 0
                      THEN Append(movies, SeedMovie(show, movies_data))
                      ELSE movies
            j == MovieIndex(seeded, movie_name)
        IN  [seeded EXCEPT
                ![j] = [SeedMovie(show, movies_data) EXCEPT
                            !.showtimes_by_date =
                                AppendByDate(seeded[j].showtimes_by_date,
                                             show.val["date"], show),
                            !.total_showtimes = seeded[j].total_showtimes + 1]]

\* One turn of the loop over shows (app.py:586-606).
AddShow(gfilter, theater, movies_data, movies, show) ==
    LET movie_name == show.val["name"].val IN
    IF should_filter_movie(gfilter, movie_name, theater) THEN movies
    ELSE
        LET seeded == IF MovieIndex(movies, movie_name) = 0
                      THEN Append(movies, SeedMovie(show, movies_data))
                      ELSE movies
            j == MovieIndex(seeded, movie_name)
        IN  [seeded EXCEPT
                ![j].showtimes_by_date = AppendByDate(@, show.val["date"], show),
                ![j].total_showtimes = @ + 1]

RECURSIVE ProcessShows(_, _, _, _, _)
ProcessShows(gfilter, theater, movies_data, movies, shows) ==
    IF Len(shows) = 0 THEN movies
    ELSE ProcessShows(gfilter, theater, movies_data,
                      AddShow(gfilter, theater, movies_data, movies, Head(shows)),
                      Tail(shows))

\* MovieShowtimesApp._process_theater_shows
_process_theater_shows(gfilter, theater, shows_data, movies_data) ==
    IF ~Truthy(shows_data) \/ "shows" \notin DOMAIN shows_data.val THEN <<>>
    ELSE IF ~Truthy(shows_data.val["shows"]) THEN <<>>
    ELSE ProcessShows(gfilter, theater, movies_data, <<>>, shows_data.val["shows"].val)

(***************************************************************************)
(* SpecAgg: _process_theater_shows on bounded inputs                       *)
(***************************************************************************)
Chars_a == <<"a">>
Chars_b == <<"b">>
Date1 == PyStr(<<"0", "1">>)
Date2 == PyStr(<<"0", "2">>)

Show(name, duration, date, movie_id) ==
    PyDict([name |-> PyStr(name), duration |-> PyInt(duration), date |-> date,
            movieId |-> movie_id])

\* A record of the second movie that carries a release date of its own.
ShowReleased ==
    PyDict([name |-> PyStr(Chars_b), duration |-> PyInt(85), date |-> Date2,
            movieId |-> PyInt(8), released |-> PyStr(<<"1", "8">>)])

\* ShowRecords: one movie on two dates with differing duration and id, a
\* second movie with and without a release date of its own, and a title that
\* holds the first one's.
AggShows ==
    { Show(Chars_a, 90, Date1, PyInt(7)),
      Show(Chars_a, 95, Date2, PyStr(<<"8">>)),
      Show(Chars_b, 90, Date1, PyInt(8)),
      ShowReleased,
      Show(<<"a", "b">>, 90, Date2, PyInt(7)) }

\* The movie-detail lookups.
AggMovies ==
    { PyDict(<<>>),
      PyDict([x \in {"7"} |-> PyDict([released |-> PyStr(<<"2", "0">>)])]) }

RECURSIVE SeqsUpTo(_, _)
SeqsUpTo(S, n) ==
    IF n = 0 THEN {<<>>}
    ELSE SeqsUpTo(S, n - 1) \cup
         {Append(q, x) : q \in {r \in SeqsUpTo(S, n - 1) : Len(r) = n - 1}, x \in S}

\* The filter of a theater: none, the empty string, or a pattern.
AggFilters == {PyNone, PyStr(<<>>), PyStr(Chars_b)}

InitAgg ==
    /\ files = <<>>
    /\ now = StartTime
    /\ IdleApi
    /\ IdleApp
    /\ \E f, g \in AggFilters :
            theaters = <<Theater(Chars_a, PyInt(1), f), Theater(Chars_b, PyInt(2), g)>>
    /\ global_filter \in {PyNone, PyStr(<<"a", "b">>)}
    /\ \E shows \in SeqsUpTo(AggShows, MaxShows), movies \in AggMovies :
            agg_in = [op |-> "args",
                      shows_data |-> PyDict([shows |-> PyList(shows), movies |-> movies])]
    /\ agg_out = NoCall

ProcessTheater ==
    /\ agg_in.op = "args"
    /\ agg_out = NoCall
    /\ agg_out' = [op |-> "movies",
                   movies |-> _process_theater_shows(
                                  global_filter, theaters[1], agg_in.shows_data,
                                  DictGet(agg_in.shows_data, "movies", PyDict(<<>>)))]
    /\ UNCHANGED <<cacheVars, apiVars, configVars, appVars, search, agg_in>>

NextAgg == ProcessTheater

SpecAgg == InitAgg /\ [][NextAgg]_vars

(***************************************************************************)
(* Claims about the aggregation (checked under SpecAgg)                    *)
(***************************************************************************)
\* The ShowRecords of the input that no filter matches, in list order.
AggUnfiltered ==
    SelectSeq(agg_in.shows_data.val["shows"].val,
              LAMBDA s : ~should_filter_movie(global_filter, s.val["name"].val, theaters[1]))

RECURSIVE SumGroupLens(_)
SumGroupLens(groups) ==
    IF Len(groups) = 0 THEN 0
    ELSE Len(Head(groups).shows) + SumGroupLens(Tail(groups))

CountNamed(shows, movie_name) ==
    Cardinality({i \in 1..Len(shows) : shows[i].val["name"].val = movie_name})

CountIn(shows, show) ==
    Cardinality({i \in 1..Len(shows) : shows[i] = show})

\* C10: _process_theater_shows gives exactly one MovieAggregate per distinct
\* unfiltered movie name; its total_showtimes is the number of unfiltered
\* records of that name and the sum of the lengths of its date groups; and
\* every record sits in the group of its own date.
C10_PerTheaterMerge ==
    agg_out.op = "movies" =>
        LET movies == agg_out.movies
            kept == AggUnfiltered
        IN  /\ {movies[i].name : i \in 1..Len(movies)}
                    = {kept[i].val["name"].val : i \in 1..Len(kept)}
            /\ \A i, j \in 1..Len(movies) : movies[i].name = movies[j].name => i = j
            /\ \A i \in 1..Len(movies) :
                    LET m == movies[i]
                        groups == m.showtimes_by_date
                    IN  /\ m.total_showtimes = CountNamed(kept, m.name)
                        /\ m.total_showtimes = SumGroupLens(groups)
                        /\ \A g, h \in 1..Len(groups) :
                                groups[g].date = groups[h].date => g = h
                        /\ \A g \in 1..Len(groups) :
                                \A k \in 1..Len(groups[g].shows) :
                                    LET s == groups[g].shows[k]
                                    IN  /\ s.val["date"] = groups[g].date
                                        /\ s.val["name"].val = m.name
                                        /\ CountIn(groups[g].shows, s) = CountIn(kept, s)

\* Two records of one movie on different dates, merged into one aggregate
\* with total_showtimes 2 and two date groups, beside a filtered record.
C10_Witness ==
    /\ agg_out.op = "movies"
    /\ Len(AggUnfiltered) < Len(agg_in.shows_data.val["shows"].val)
    /\ \E i \in 1..Len(agg_out.movies) :
            /\ agg_out.movies[i].total_showtimes = 2
            /\ Len(agg_out.movies[i].showtimes_by_date) = 2

\* The pattern is configured (a non-empty string) and occurs in the name.
Matches(pattern, movie_name) ==
    /\ pattern.kind = "str"
    /\ Len(pattern.val) > 0
    /\ \E i \in 1..(Len(movie_name) - Len(pattern.val) + 1) :
            SubSeq(movie_name, i, i + Len(pattern.val) - 1) = pattern.val

\* The record sits in a date group of an aggregate of the output.
Contributes(show) ==
    \E i \in 1..Len(agg_out.movies) :
        \E g \in 1..Len(agg_out.movies[i].showtimes_by_date) :
            \E k \in 1..Len(agg_out.movies[i].showtimes_by_date[g].shows) :
                agg_out.movies[i].showtimes_by_date[g].shows[k] = show

\* C11: a ShowRecord contributes to the theater's aggregate if and only if
\* neither the global filter pattern nor the theater's own filter pattern
\* matches its movie name; no aggregate has a name the global filter matches,
\* and the filter of the other theater plays no part.
C11_Filtering ==
    agg_out.op = "movies" =>
        LET shows == agg_in.shows_data.val["shows"].val
        IN  /\ \A k \in 1..Len(shows) :
                    Contributes(shows[k]) <=>
                        /\ ~Matches(global_filter, shows[k].val["name"].val)
                        /\ ~Matches(theaters[1].filter, shows[k].val["name"].val)
            /\ \A i \in 1..Len(agg_out.movies) :
                    ~Matches(global_filter, agg_out.movies[i].name)

\* The global filter removed a record that the theater's filter lets pass, and
\* a record that the other theater's filter matches contributes.
C11_Witness ==
    /\ agg_out.op = "movies"
    /\ \E k \in 1..Len(agg_in.shows_data.val["shows"].val) :
            LET n == agg_in.shows_data.val["shows"].val[k].val["name"].val
            IN  /\ Matches(global_filter, n)
                /\ ~Matches(theaters[1].filter, n)
                /\ MovieIndex(agg_out.movies, n) = 0
    /\ \E k \in 1..Len(agg_in.shows_data.val["shows"].val) :
            LET s == agg_in.shows_data.val["shows"].val[k]
            IN  /\ Matches(theaters[2].filter, s.val["name"].val)
                /\ Contributes(s)

(***************************************************************************)
(* app.py: sorting and rendering                                           *)
(***************************************************************************)
\* The characters in use, in code point order.
Alphabet == <<"-", "0", "1", "2", "3", "4", "5", "6", "7", "8", "9",
              "A", "B", "K", "a", "b", "k", "m">>

CodePoint(c) == CHOOSE i \in 1..Len(Alphabet) : Alphabet[i] = c

\* a < b for str
RECURSIVE TextLess(_, _)
TextLess(a, b) ==
    IF Len(b) = 0 THEN FALSE
    ELSE IF Len(a) = 0 THEN TRUE
    ELSE IF Head(a) = Head(b) THEN TextLess(Tail(a), Tail(b))
    ELSE CodePoint(Head(a)) < CodePoint(Head(b))

\* a < b for two sort keys of one type
KeyLess(a, b) ==
    IF a.kind = "int" THEN a.val < b.val ELSE TextLess(a.val, b.val)

\* One step of a stable sort of (key, item) pairs: pair goes behind
\* everything that does not sort after it.
InsertSorted(sorted, pair, reverse) ==
    LET later == {i \in 1..Len(sorted) :
                    IF reverse THEN KeyLess(sorted[i].key, pair.key)
                    ELSE KeyLess(pair.key, sorted[i].key)}
        at == IF later = {} THEN Len(sorted) + 1
              ELSE CHOOSE i \in later : \A j \in later : i <= j
    IN  SubSeq(sorted, 1, at - 1) \o <<pair>> \o SubSeq(sorted, at, Len(sorted))

RECURSIVE SortInto(_, _, _)
SortInto(sorted, pairs, reverse) ==
    IF Len(pairs) = 0 THEN sorted
    ELSE SortInto(InsertSorted(sorted, Head(pairs), reverse), Tail(pairs), reverse)

Sorted(items, Key(_), reverse) ==
    LET pairs == [i \in 1..Len(items) |-> [key |-> Key(items[i]), item |-> items[i]]]
        sorted == SortInto(<<>>, pairs, reverse)
    IN  [i \in 1..Len(sorted) |-> sorted[i].item]

\* sorted(items, key=Key, reverse=True): descending, equal keys in input order
SortedReverse(items, Key(_)) == Sorted(items, Key, TRUE)

\* list.sort(key=Key): ascending, equal keys in input order
SortedAscending(items, Key(_)) == Sorted(items, Key, FALSE)

ReleasedKey(movie) == PyOr(movie.released, PyStr(<<>>))
PopularityKey(movie) == PyInt(movie.total_showtimes)

\* The sort by popularity whatever the mode.
SortMoviesByPopularity(movies, by_release) == SortedReverse(movies, PopularityKey)

\* app.py:653-662
SortMovies(movies, by_release) ==
    IF by_release THEN SortedReverse(movies, ReleasedKey)
    ELSE SortedReverse(movies, PopularityKey)

TheaterHeader(theater_name) ==
    [widget |-> "TheaterHeader", text |-> theater_name, movie |-> PyNone]
Label(text) == [widget |-> "Label", text |-> text, movie |-> PyNone]
MovieTable(title, movie) == [widget |-> "MovieTable", text |-> title, movie |-> movie]

NoShowtimes == <<"No showtimes available.">>

\* The widgets of one theater's section (the loop body of app.py:633-673).
TheaterSection(gfilter, info, by_release) ==
    LET shows_data == info.shows_data
        movies == _process_theater_shows(gfilter, info.theater, shows_data,
                                         info.movies_data)
        sorted_movies == SortMovies(movies, by_release)
    IN  <<TheaterHeader(info.name)>> \o
        ( IF ~Truthy(shows_data) \/ "shows" \notin DOMAIN shows_data.val
          THEN IF Truthy(shows_data) /\ "error" \in DOMAIN shows_data.val
               THEN <<Label(NoShowtimes \o <<"Error: ">> \o Str(shows_data.val["error"]))>>
               ELSE <<Label(NoShowtimes)>>
          ELSE IF Len(movies) = 0 THEN <<Label(NoShowtimes)>>
          ELSE [i \in 1..Len(sorted_movies) |->
                    MovieTable(sorted_movies[i].name, sorted_movies[i])] )

RECURSIVE Sections(_, _, _)
Sections(gfilter, td, by_release) ==
    IF Len(td) = 0 THEN <<>>
    ELSE TheaterSection(gfilter, Head(td), by_release)
            \o Sections(gfilter, Tail(td), by_release)

\* MovieShowtimesApp._render_by_theater
_render_by_theater(gfilter, td, by_release) == Sections(gfilter, td, by_release)

\* all_movies[movie_name].append((theater_name, theater, movie_data))
RECURSIVE CollectMovies(_, _, _)
CollectMovies(all_movies, info, movies) ==
    IF Len(movies) = 0 THEN all_movies
    ELSE
        LET m == Head(movies)
            item == [theater_name |-> info.name, theater |-> info.theater, movie |-> m]
            at == IF \E i \in 1..Len(all_movies) : all_movies[i].name = m.name
                  THEN CHOOSE i \in 1..Len(all_movies) : all_movies[i].name = m.name
                  ELSE 0
            next == IF at = 0
                    THEN Append(all_movies, [name |-> m.name, theaters |-> <<item>>])
                    ELSE [all_movies EXCEPT ![at].theaters = Append(@, item)]
        IN  CollectMovies(next, info, Tail(movies))

\* app.py:685-693
RECURSIVE AllMovies(_, _, _)
AllMovies(gfilter, td, all_movies) ==
    IF Len(td) = 0 THEN all_movies
    ELSE AllMovies(gfilter, Tail(td),
                   CollectMovies(all_movies, Head(td),
                                 _process_theater_shows(gfilter, Head(td).theater,
                                                        Head(td).shows_data,
                                                        Head(td).movies_data)))

\* max(released or "" for ...) over the theaters showing the movie
RECURSIVE MaxReleased(_)
MaxReleased(items) ==
    IF Len(items) = 0 THEN PyStr(<<>>)
    ELSE LET rest == MaxReleased(Tail(items))
             mine == ReleasedKey(Head(items).movie)
         IN  IF Len(items) = 1 THEN mine
             ELSE IF KeyLess(mine, rest) THEN rest ELSE mine

\* sum(total_showtimes for ...) over the theaters showing the movie
RECURSIVE SumShowtimes(_)
SumShowtimes(items) ==
    IF Len(items) = 0 THEN 0
    ELSE Head(items).movie.total_showtimes + SumShowtimes(Tail(items))

CombinedReleased(entry) == MaxReleased(entry.theaters)
CombinedShowtimes(entry) == PyInt(SumShowtimes(entry.theaters))
TheaterNameKey(item) == PyStr(item.theater_name)

\* The tables of one movie entry with the theaters in the order collected.
MovieEntryTablesAsCollected(entry) ==
    [i \in 1..Len(entry.theaters) |->
        MovieTable(entry.name \o <<" [">> \o entry.theaters[i].theater_name \o <<"]">>,
                   entry.theaters[i].movie)]

\* The tables of one movie entry (app.py:719-733).
MovieEntryTables(entry) ==
    LET theaters_for_movie == SortedAscending(entry.theaters, TheaterNameKey)
    IN  [i \in 1..Len(theaters_for_movie) |->
            MovieTable(entry.name \o <<" [">> \o theaters_for_movie[i].theater_name
                            \o <<"]">>,
                       theaters_for_movie[i].movie)]

RECURSIVE EntryTables(_)
EntryTables(entries) ==
    IF Len(entries) = 0 THEN <<>>
    ELSE MovieEntryTables(Head(entries)) \o EntryTables(Tail(entries))

\* MovieShowtimesApp._render_by_movie
_render_by_movie(gfilter, td, by_release) ==
    LET all_movies == AllMovies(gfilter, td, <<>>)
        sorted_movies == IF by_release
                         THEN SortedReverse(all_movies, CombinedReleased)
                         ELSE SortedReverse(all_movies, CombinedShowtimes)
    IN  IF Len(all_movies) = 0 THEN <<Label(NoShowtimes)>>
        ELSE EntryTables(sorted_movies)

\* MovieShowtimesApp.refresh_ui: the content after it
refresh_ui(gfilter, td, by_release, by_theater) ==
    IF Len(td) = 0 THEN <<Label(<<"No theaters configured.">>)>>
    ELSE IF by_theater THEN _render_by_theater(gfilter, td, by_release)
    ELSE _render_by_movie(gfilter, td, by_release)

(***************************************************************************)
(* app.py: the per-theater fetch                                           *)
(***************************************************************************)
Chars_showtimes == <<"s", "h", "o", "w", "t", "i", "m", "e", "s">>

\* What the request can end in: an exception of client.get (network failure),
\* of raise_for_status (non-success status) or of response.json() (malformed
\* body), or a parsed body.
Failures == {"ConnectError", "HTTPStatusError", "JSONDecodeError"}

Failure(e) == [kind |-> "failure", exc |-> e]
Body(json) == [kind |-> "body", json |-> json]

OutcomesOf(bodies) == {Failure(e) : e \in Failures} \cup {Body(b) : b \in bodies}

\* app.py:552
ErrorData(e) ==
    PyDict([shows |-> PyList(<<>>), error |-> PyStr(<<e>>), movies |-> PyDict(<<>>)])

\* A fetch (a task of load_showtimes, or a search): st is where it is, data
\* what it returned, exc the exception that escaped it, sent the requests it
\* issued.  before / at are the cache file it met and the time it started;
\* wrote is the write of its cache.set and after its cache file on return.
NewFetch ==
    [st |-> "created", data |-> PyNone, exc |-> "none", sent |-> 0,
     before |-> NoFile, at |-> 0, wrote |-> "none", after |-> NoFile]

\* The operation without its cache lookup: a request whatever the cache holds.
FetchStartNoCache(fs, prefix, arg, current_time) ==
    [files |-> fs,
     fetch |-> [NewFetch EXCEPT !.before = FileAt(fs, CachePath(prefix, <<arg>>)),
                                !.at = current_time,
                                !.after = FileAt(fs, CachePath(prefix, <<arg>>)),
                                !.st = "awaiting", !.sent = 1]]

\* A cache-or-fetch operation up to its first await: the cache lookup, and on
\* a miss the request sent (app.py:526-546 and 752-872).
FetchStart(fs, prefix, arg, current_time) ==
    LET got == CacheGet(fs, prefix, <<arg>>, current_time)
        met == [NewFetch EXCEPT !.before = FileAt(fs, CachePath(prefix, <<arg>>)),
                                !.at = current_time,
                                !.after = FileAt(got.files, CachePath(prefix, <<arg>>))]
    IN  [files |-> got.files,
         fetch |->
            IF got.exc # "none" THEN [met EXCEPT !.st = "raised", !.exc = got.exc]
            ELSE IF got.value # PyNone THEN [met EXCEPT !.st = "done", !.data = got.value]
            ELSE [met EXCEPT !.st = "awaiting", !.sent = 1]]

\* The same with the error placeholder stored like a payload.
TheaterFetchFinishCachingErrors(fs, fetch, theater, current_time, outcome, io) ==
    LET data == IF outcome.kind = "failure" THEN ErrorData(outcome.exc) ELSE outcome.json
        written == CacheSet(fs, Chars_showtimes, data, <<theater.cinema_id>>,
                            current_time, io)
    IN  [files |-> written,
         fetch |-> [fetch EXCEPT
                       !.st = "done", !.data = data, !.wrote = io,
                       !.after = FileAt(written,
                                        CachePath(Chars_showtimes, <<theater.cinema_id>>))]]

\* load_showtimes_for_theater from the response on (app.py:546-553).
TheaterFetchFinish(fs, fetch, theater, current_time, outcome, io) ==
    IF outcome.kind = "failure"
    THEN [files |-> fs,
          fetch |-> [fetch EXCEPT !.st = "done", !.data = ErrorData(outcome.exc)]]
    ELSE LET written == CacheSet(fs, Chars_showtimes, outcome.json,
                                 <<theater.cinema_id>>, current_time, io)
         IN  [files |-> written,
              fetch |-> [fetch EXCEPT
                            !.st = "done", !.data = outcome.json, !.wrote = io,
                            !.after = FileAt(written,
                                             CachePath(Chars_showtimes,
                                                       <<theater.cinema_id>>))]]

(***************************************************************************)
(* app.py: load_showtimes and the application                              *)
(***************************************************************************)
\* self.theaters_data[theater.name] = {...}
DictStore(td, info) ==
    IF \E i \in 1..Len(td) : td[i].name = info.name
    THEN LET i == CHOOSE k \in 1..Len(td) : td[k].name = info.name
         IN  [td EXCEPT ![i] = info]
    ELSE Append(td, info)

\* The loop over the gathered results (app.py:564-569): data.get raises on a
\* body that is not a mapping.
RECURSIVE StoreResults(_, _, _)
StoreResults(td, ths, results) ==
    IF Len(ths) = 0 THEN [exc |-> "none", td |-> td]
    ELSE IF Head(results).kind # "dict" THEN [exc |-> "AttributeError", td |-> td]
    ELSE StoreResults(
            DictStore(td, [name |-> Head(ths).name,
                           theater |-> Head(ths),
                           shows_data |-> Head(results),
                           movies_data |-> DictGet(Head(results), "movies", PyDict(<<>>))]),
            Tail(ths), Tail(results))

AllStarted == \A i \in 1..Len(task) : task[i].st # "created"

\* on_mount -> load_showtimes: one task per theater is created and gathered.
OnMount ==
    /\ pc = "init"
    /\ pc' = "loading"
    /\ task' = [i \in 1..Len(theaters) |-> NewFetch]
    /\ UNCHANGED <<cacheVars, apiVars, configVars, theaters_data, sort_by_release,
                   group_by_theater, screen, search, aggVars>>

\* The tasks run up to their first await in the order gather created them.
TaskStart(i) ==
    /\ pc = "loading"
    /\ task[i].st = "created"
    /\ \A j \in 1..(i - 1) : task[j].st # "created"
    /\ LET started == FetchStart(files, Chars_showtimes, theaters[i].cinema_id, now)
       IN  /\ files' = started.files
           /\ task' = [task EXCEPT ![i] = started.fetch]
    /\ UNCHANGED <<now, apiVars, configVars, pc, theaters_data, sort_by_release,
                   group_by_theater, screen, search, aggVars>>

\* The response of task i arrives.
TaskRespond(i, outcome, io) ==
    /\ pc = "loading"
    /\ AllStarted
    /\ task[i].st = "awaiting"
    /\ LET finished == TheaterFetchFinish(files, task[i], theaters[i], now, outcome, io)
       IN  /\ files' = finished.files
           /\ task' = [task EXCEPT ![i] = finished.fetch]
    /\ UNCHANGED <<now, apiVars, configVars, pc, theaters_data, sort_by_release,
                   group_by_theater, screen, search, aggVars>>

\* gather returns: load_showtimes stores the results and on_mount refreshes
\* the UI, unless storing raises.
LoadFinish ==
    /\ pc = "loading"
    /\ \A i \in 1..Len(task) : task[i].st = "done"
    /\ LET stored == StoreResults(theaters_data, theaters,
                                  [i \in 1..Len(task) |-> task[i].data])
       IN  /\ theaters_data' = stored.td
           /\ IF stored.exc = "none"
              THEN /\ pc' = "mounted"
                   /\ screen' = refresh_ui(global_filter, stored.td, sort_by_release,
                                            group_by_theater)
              ELSE /\ pc' = "crashed"
                   /\ UNCHANGED screen
    /\ UNCHANGED <<cacheVars, apiVars, configVars, task, sort_by_release,
                   group_by_theater, search, aggVars>>

\* A task raised (Cache.get let an exception escape): gather, load_showtimes
\* and on_mount raise.
LoadRaise ==
    /\ pc = "loading"
    /\ AllStarted
    /\ \E i \in 1..Len(task) : task[i].st = "raised"
    /\ pc' = "crashed"
    /\ UNCHANGED <<cacheVars, apiVars, configVars, task, theaters_data, sort_by_release,
                   group_by_theater, screen, search, aggVars>>

\* The user's key presses are handled between the steps of the tasks.
UiReady == (pc = "loading" /\ AllStarted) \/ pc = "mounted"

action_toggle_sort ==
    /\ UiReady
    /\ sort_by_release' = ~sort_by_release
    /\ screen' = refresh_ui(global_filter, theaters_data, ~sort_by_release, group_by_theater)
    /\ UNCHANGED <<cacheVars, apiVars, configVars, pc, task, theaters_data,
                   group_by_theater, search, aggVars>>

\* The grouping flag flips and the content is left as it is.
ToggleGroupingNoRefresh ==
    /\ UiReady
    /\ group_by_theater' = ~group_by_theater
    /\ UNCHANGED <<cacheVars, apiVars, configVars, pc, task, theaters_data,
                   sort_by_release, screen, search, aggVars>>

action_toggle_grouping ==
    /\ UiReady
    /\ group_by_theater' = ~group_by_theater
    /\ screen' = refresh_ui(global_filter, theaters_data, sort_by_release, ~group_by_theater)
    /\ UNCHANGED <<cacheVars, apiVars, configVars, pc, task, theaters_data,
                   sort_by_release, search, aggVars>>

\* Time passes between the earlier runs that left the cache files and this
\* run; the run itself, which reads the clock only in its fetches, is taken
\* to fall within one second.
ClockBeforeMount ==
    /\ pc = "init"
    /\ Tick

(***************************************************************************)
(* Spec: the application over bounded configurations, cache directories    *)
(* and responses                                                           *)
(***************************************************************************)
\* The configured theaters are drawn from these: two share a name, two a
\* cinema_id.
TheaterUniverse ==
    { Theater(<<"A">>, PyInt(1), PyNone),
      Theater(<<"A">>, PyInt(2), PyNone),
      Theater(<<"B">>, PyInt(1), PyNone) }

\* Config.load leaves at least one theater.
TheaterLists == SeqsUpTo(TheaterUniverse, MaxTheaters) \ {<<>>}

B_ok ==
    PyDict([shows |-> PyList(<<Show(Chars_a, 90, Date1, PyInt(7))>>),
            movies |-> PyDict(<<>>)])
B_empty == PyDict([shows |-> PyList(<<>>), movies |-> PyDict(<<>>)])
B_error == PyDict([error |-> PyStr(<<"x">>)])
B_list == PyList(<<>>)

\* Parsed response bodies: a listing, an empty listing, a mapping without a
\* show list, and a body that is not a mapping.
Bodies == {B_ok, B_empty, B_error, B_list}

\* What earlier runs (or other programs) left in a cache file.
Leftovers ==
    { JsonDump(PyDict([timestamp |-> PyInt(StartTime), data |-> B_ok])),
      JsonDump(PyList(<<>>)) }

ShowtimesPath(theater) == CachePath(Chars_showtimes, <<theater.cinema_id>>)

\* The cache directories the run can start with.
CacheDirs(ths) ==
    LET paths == {ShowtimesPath(ths[i]) : i \in 1..Len(ths)}
    IN  UNION {[present -> Leftovers] : present \in SUBSET paths}

Init ==
    /\ theaters \in TheaterLists
    /\ global_filter = PyNone
    /\ files \in CacheDirs(theaters)
    /\ now = StartTime
    /\ IdleApi
    /\ IdleApp
    /\ IdleAgg

Next ==
    \/ OnMount
    \/ \E i \in 1..Len(theaters) : TaskStart(i)
    \/ \E i \in 1..Len(theaters), outcome \in OutcomesOf(Bodies), io \in WriteOutcomes :
            TaskRespond(i, outcome, io)
    \/ LoadFinish
    \/ LoadRaise
    \/ action_toggle_sort
    \/ action_toggle_grouping
    \/ ClockBeforeMount

Spec == Init /\ [][Next]_vars

(***************************************************************************)
(* app.py: search_theaters_by_city                                         *)
(***************************************************************************)
Chars_theater_search ==
    <<"t", "h", "e", "a", "t", "e", "r", "_", "s", "e", "a", "r", "c", "h">>

LowerChar(c) ==
    CASE c = "A" -> "a"
      [] c = "B" -> "b"
      [] c = "K" -> "k"
      [] OTHER -> c

\* str.lower()
Lower(chars) == [i \in 1..Len(chars) |-> LowerChar(chars[i])]

\* app.py:879
ErrorResults(e) == PyList(<<PyDict([error |-> PyStr(<<e>>)])>>)

SearchKey(city) == PyStr(Lower(city))

SearchPath(city) == CachePath(Chars_theater_search, <<SearchKey(city)>>)

\* search_theaters_by_city from the response on (app.py:872-880).
SearchFinish(fs, fetch, city, current_time, outcome, io) ==
    LET failed(e) ==
            [files |-> fs,
             fetch |-> [fetch EXCEPT !.st = "done", !.data = ErrorResults(e)]]
    IN  IF outcome.kind = "failure" THEN failed(outcome.exc)
        ELSE IF outcome.json.kind # "dict" THEN failed("AttributeError")
        ELSE IF DictGet(outcome.json, "data", PyDict(<<>>)).kind # "dict"
        THEN failed("AttributeError")
        ELSE
            LET results == DictGet(DictGet(outcome.json, "data", PyDict(<<>>)),
                                   "search", PyList(<<>>))
                written == CacheSet(fs, Chars_theater_search, results,
                                    <<SearchKey(city)>>, current_time, io)
            IN  [files |-> written,
                 fetch |-> [fetch EXCEPT
                               !.st = "done", !.data = results, !.wrote = io,
                               !.after = FileAt(written, SearchPath(city))]]

\* TheaterResultsModal.compose: what the modal shows for the results.  An
\* entry is listed when its __typename is Cinema or City.
TheaterResultsModal(results) ==
    IF ~Truthy(results)
    THEN [text |-> <<"No theaters found.">>, found |-> 0, listed |-> <<>>]
    ELSE [text |-> <<"Found ">> \o IntToStr(Len(results.val)) \o <<" theater(s):">>,
          found |-> Len(results.val),
          listed |-> SelectSeq(results.val,
                               LAMBDA r : DictGet(r, "__typename", PyStr(<<>>))
                                            \in {PyStr(<<"Cinema">>), PyStr(<<"City">>)})]

\* No modal is up.
NoModal == [text |-> <<>>, found |-> 0, listed |-> <<>>]

\* handle_search after search_theaters_by_city returned: the modal pushed.
Pushed(fetch) == IF fetch.st = "done" THEN TheaterResultsModal(fetch.data) ELSE NoModal

\* The application runs (its event loop handles keys and callbacks).
Running == pc \in {"loading", "mounted"}

\* handle_search calls search_theaters_by_city(city); one search at a time.
SearchStart(city) ==
    /\ Running
    /\ IF search.op = "none" THEN TRUE ELSE search.fetch.st = "done"
    /\ LET started == FetchStart(files, Chars_theater_search, SearchKey(city), now)
       IN  /\ files' = started.files
           /\ search' = [op |-> "search", city |-> city, fetch |-> started.fetch,
                         modal |-> Pushed(started.fetch)]
           /\ pc' = IF started.fetch.st = "raised" THEN "crashed" ELSE pc
    /\ UNCHANGED <<now, apiVars, configVars, task, theaters_data, sort_by_release,
                   group_by_theater, screen, aggVars>>

\* The response of the search arrives.
SearchRespond(outcome, io) ==
    /\ Running
    /\ search.op = "search"
    /\ search.fetch.st = "awaiting"
    /\ LET finished == SearchFinish(files, search.fetch, search.city, now, outcome, io)
       IN  /\ files' = finished.files
           /\ search' = [search EXCEPT !.fetch = finished.fetch,
                                       !.modal = Pushed(finished.fetch)]
    /\ UNCHANGED <<now, apiVars, configVars, appVars, aggVars>>

(***************************************************************************)
(* SpecFetch: the two cache-or-fetch operations, one configured theater    *)
(* and the searches, with the clock running throughout                     *)
(***************************************************************************)
Cities == {<<"K">>, <<"k">>}

Cinema == PyDict([__typename |-> PyStr(<<"Cinema">>), id |-> PyInt(1)])

\* Parsed bodies of the search endpoint: results, no results, a null result
\* list, and a body with no usable data.
SearchBodies ==
    { PyDict([data |-> PyDict([search |-> PyList(<<Cinema>>)])]),
      PyDict([data |-> PyDict([search |-> PyList(<<>>)])]),
      PyDict([data |-> PyDict([search |-> PyNone])]),
      PyDict([data |-> PyNone]) }

InitFetch ==
    /\ theaters = <<Theater(<<"A">>, PyInt(1), PyNone)>>
    /\ global_filter = PyNone
    /\ files \in CacheDirs(theaters)
    /\ now = StartTime
    /\ IdleApi
    /\ IdleApp
    /\ IdleAgg

NextFetch ==
    \/ OnMount
    \/ \E i \in 1..Len(theaters) : TaskStart(i)
    \/ \E i \in 1..Len(theaters), outcome \in OutcomesOf(Bodies), io \in WriteOutcomes :
            TaskRespond(i, outcome, io)
    \/ LoadFinish
    \/ LoadRaise
    \/ \E city \in Cities : SearchStart(city)
    \/ \E outcome \in OutcomesOf(SearchBodies), io \in WriteOutcomes :
            SearchRespond(outcome, io)
    \/ Tick

SpecFetch == InitFetch /\ [][NextFetch]_vars

(***************************************************************************)
(* SpecView: the mounted application over bounded theater results, under   *)
(* the two toggles                                                         *)
(***************************************************************************)
\* The movie-detail lookups of the first theater's responses.
ViewMovies ==
    AggMovies \cup
    { PyDict([x \in {"7", "8"} |->
                IF x = "7" THEN PyDict([released |-> PyStr(<<"2", "0">>)])
                ELSE PyDict([released |-> PyStr(<<"1", "9">>)])]) }

\* The responses of the first configured theater.
ViewResponses ==
    { PyDict([shows |-> PyList(shows), movies |-> movies]) :
        shows \in SeqsUpTo(AggShows, MaxShows), movies \in ViewMovies }

\* The responses of the second one: no show; one movie twice and another
\* once, release dates unknown; two movies with a later release date.
ViewOthers ==
    { B_empty,
      PyDict([shows |-> PyList(<<Show(Chars_b, 90, Date1, PyInt(8)),
                                 Show(Chars_b, 90, Date2, PyInt(8)),
                                 Show(Chars_a, 90, Date1, PyInt(7))>>),
              movies |-> PyDict(<<>>)]),
      PyDict([shows |-> PyList(<<Show(Chars_a, 95, Date2, PyStr(<<"8">>)),
                                 Show(Chars_b, 90, Date1, PyInt(8))>>),
              movies |-> PyDict([x \in {"8"} |->
                                    PyDict([released |-> PyStr(<<"2", "1">>)])])]) }

\* The configured theaters, not in alphabetical order.
ViewTheaters == <<Theater(<<"B">>, PyInt(2), PyNone), Theater(<<"A">>, PyInt(1), PyNone)>>

\* The task of a theater after its response, when the cache write failed
\* (app.py:546-550, cache.py:77-78).
Fetched(data) ==
    [NewFetch EXCEPT !.st = "done", !.data = data, !.sent = 1, !.at = StartTime,
                     !.wrote = "open_fails"]

\* on_mount has run over an empty cache directory: the results are stored and
\* the UI refreshed.
InitView ==
    /\ files = <<>>
    /\ now = StartTime
    /\ IdleApi
    /\ IdleAgg
    /\ global_filter = PyNone
    /\ search = NoCall
    /\ sort_by_release = FALSE
    /\ group_by_theater = TRUE
    /\ pc = "mounted"
    /\ \E results \in {<<r>> : r \in ViewResponses}
                        \cup {<<r, o>> : r \in ViewResponses, o \in ViewOthers} :
            /\ theaters = SubSeq(ViewTheaters, 1, Len(results))
            /\ task = [i \in 1..Len(results) |-> Fetched(results[i])]
            /\ theaters_data = StoreResults(<<>>, theaters, results).td
            /\ screen = refresh_ui(global_filter, theaters_data, FALSE, TRUE)

NextView ==
    \/ action_toggle_sort
    \/ action_toggle_grouping

SpecView == InitView /\ [][NextView]_vars

(***************************************************************************)
(* Claims about the fetch and the application                              *)
(***************************************************************************)
\* shows_data is the error placeholder {shows: [], error: message, movies: {}}.
IsErrorPlaceholder(d) ==
    /\ d.kind = "dict"
    /\ DOMAIN d.val = {"shows", "error", "movies"}
    /\ d.val["shows"] = PyList(<<>>)
    /\ d.val["movies"] = PyDict(<<>>)

\* C5 (checked under Spec): whatever the per-theater outcomes and cache files,
\* load_showtimes completes without raising, no fetch task raises, and a
\* theater whose request failed has the error placeholder as its result.
C5_FailureIsolation ==
    /\ pc # "crashed"
    /\ \A i \in 1..Len(task) :
            /\ task[i].st # "raised"
            /\ (task[i].st = "done" /\ task[i].sent = 1 /\ task[i].wrote = "none")
                    => IsErrorPlaceholder(task[i].data)

\* text holds the message somewhere.
TextHolds(text, message) ==
    \E k \in 1..Len(text) : SubSeq(text, k, k + Len(message) - 1) = message

\* C6 (checked under Spec): in the by-theater presentation a theater whose
\* response is the error placeholder shows no movie and a label with the error
\* message, and its section differs from that of a theater whose show list is
\* legitimately empty.
C6_ErrorReported ==
    (pc = "mounted" /\ group_by_theater) =>
        \A i \in 1..Len(theaters_data) :
            IsErrorPlaceholder(theaters_data[i].shows_data) =>
                LET info == theaters_data[i]
                    section == TheaterSection(global_filter, info, sort_by_release)
                    message == Str(info.shows_data.val["error"])
                IN  /\ \A w \in 1..Len(section) : section[w].widget # "MovieTable"
                    /\ \E w \in 1..Len(screen) :
                            /\ screen[w].widget = "Label"
                            /\ TextHolds(screen[w].text, message)
                    /\ section # TheaterSection(global_filter,
                                                [info EXCEPT !.shows_data = B_empty],
                                                sort_by_release)

\* The file holds a well-formed entry that is not older than the TTL at time t.
HoldsUnexpired(content, t) ==
    /\ content.kind = "json"
    /\ content.doc.kind = "dict"
    /\ "timestamp" \in DOMAIN content.doc.val
    /\ content.doc.val["timestamp"].kind = "int"
    /\ t - content.doc.val["timestamp"].val <= CACHE_DURATION
    /\ "data" \in DOMAIN content.doc.val

\* ... and its payload is not null, so that Cache.get returns it.
Servable(content, t) ==
    /\ HoldsUnexpired(content, t)
    /\ content.doc.val["data"] # PyNone

\* The file holds the payload.
Holds(content, payload) ==
    /\ content.kind = "json"
    /\ content.doc.kind = "dict"
    /\ "data" \in DOMAIN content.doc.val
    /\ content.doc.val["data"] = payload

\* A fetch that returned did what C7 states: the payload of the unexpired
\* entry and no request, or else one request and, on success, the payload
\* stored under its key on return.
FetchedAsClaimed(f) ==
    f.st = "done" =>
        IF HoldsUnexpired(f.before, f.at)
        THEN f.data = f.before.doc.val["data"] /\ f.sent = 0
        ELSE f.sent = 1 /\ (f.wrote # "none" => Holds(f.after, f.data))

\* The same with the two provisos of the amended C7.
FetchedFromCacheOrNetwork(f) ==
    /\ f.st = "awaiting" => (f.sent = 1 /\ ~Servable(f.before, f.at))
    /\ f.st = "done" =>
            IF Servable(f.before, f.at)
            THEN f.data = f.before.doc.val["data"] /\ f.sent = 0
            ELSE f.sent = 1 /\ (f.wrote = "ok" => Holds(f.after, f.data))

\* The cache file of the search, by the lower-cased query.
LowerCasedPath(city) == CachePath(Chars_theater_search, <<PyStr(Lower(city))>>)

\* C7 as stated (checked under SpecFetch): the showtimes fetch and the city
\* search return the payload of an unexpired cache entry without a request,
\* and otherwise issue exactly one request and on success have stored the
\* payload under the same key (the lower-cased query) when they return.
C7_CacheOrFetchAsClaimed ==
    /\ \A i \in 1..Len(task) : FetchedAsClaimed(task[i])
    /\ search.op = "search" =>
            /\ FetchedAsClaimed(search.fetch)
            /\ (search.fetch.st = "done" /\ search.fetch.wrote # "none")
                    => Holds(FileAt(files, LowerCasedPath(search.city)), search.fetch.data)

\* C7 as amended: the payload is served from the cache when Cache.get returns
\* one (a well-formed unexpired entry whose data is not null); when it returns
\* None exactly one request is issued, and on success Cache.set is called
\* under the same key before the operation returns, which leaves the payload
\* in the file unless the write fails.
C7_CacheOrFetch ==
    /\ \A i \in 1..Len(task) : FetchedFromCacheOrNetwork(task[i])
    /\ search.op = "search" =>
            /\ FetchedFromCacheOrNetwork(search.fetch)
            /\ (search.fetch.st = "done" /\ search.fetch.wrote = "ok")
                    => Holds(FileAt(files, LowerCasedPath(search.city)), search.fetch.data)

\* A search typed in upper case was served from the cache without a request,
\* after the theater's showtimes were fetched with one request and stored.
C7_Witness ==
    /\ search.op = "search"
    /\ search.city = <<"K">>
    /\ search.fetch.st = "done"
    /\ search.fetch.sent = 0
    /\ search.fetch.data = PyList(<<Cinema>>)
    /\ Len(task) = 1
    /\ task[1].st = "done"
    /\ task[1].sent = 1
    /\ task[1].wrote = "ok"

\* No Theater is configured twice.
DistinctTheaters ==
    \A i, j \in 1..Len(theaters) : i # j => theaters[i] # theaters[j]

\* The configured Theaters have cinema ids of their own.
DistinctCinemaIds ==
    \A i, j \in 1..Len(theaters) : i # j => theaters[i].cinema_id # theaters[j].cinema_id

\* C8 (checked under Spec): when no Theater is configured twice, no two fetch
\* tasks of one run read or write the same cache file, and at most one request
\* is issued per cache key.
C8_KeySpacePartitioning ==
    DistinctTheaters =>
    /\ \A i, j \in 1..Len(task) :
            (i # j /\ task[i].st # "created" /\ task[j].st # "created")
                => ShowtimesPath(theaters[i]) # ShowtimesPath(theaters[j])
    /\ \A i \in 1..Len(task) :
            Cardinality({j \in 1..Len(task) :
                            /\ ShowtimesPath(theaters[j]) = ShowtimesPath(theaters[i])
                            /\ task[j].sent = 1}) <= 1

\* The texts of the theater headers on the screen, in order.
Headers ==
    LET hs == SelectSeq(screen, LAMBDA w : w.widget = "TheaterHeader")
    IN  [i \in 1..Len(hs) |-> hs[i].text]

\* C9 (checked under Spec): after load_showtimes, for Theaters with cinema ids
\* of their own (names may be shared), the stored results hold one
\* TheaterResult per configured Theater, each with the response fetched for
\* that Theater, and the by-theater sections come in the configured order.
C9_OneResultPerTheater ==
    (pc = "mounted" /\ DistinctCinemaIds) =>
        /\ Len(theaters_data) = Len(theaters)
        /\ \A i \in 1..Len(theaters) :
                /\ theaters_data[i].theater = theaters[i]
                /\ theaters_data[i].shows_data = task[i].data
        /\ group_by_theater =>
                Headers = [i \in 1..Len(theaters) |-> theaters[i].name]

(***************************************************************************)
(* Claims about the presentation (checked under SpecView)                  *)
(***************************************************************************)
\* Where the theater headers are on the screen.
HeaderPositions ==
    SelectSeq([i \in 1..Len(screen) |-> i], LAMBDA i : screen[i].widget = "TheaterHeader")

\* The MovieAggregates shown in the i-th theater section, in order.
SectionMovies(i) ==
    LET hp == HeaderPositions
        to == IF i < Len(hp) THEN hp[i + 1] - 1 ELSE Len(screen)
        tables == SelectSeq(SubSeq(screen, hp[i] + 1, to),
                            LAMBDA w : w.widget = "MovieTable")
    IN  [k \in 1..Len(tables) |-> tables[k].movie]

\* The position of the first record called movie_name in the show list.
FirstRecord(shows, movie_name) ==
    CHOOSE k \in 1..Len(shows) :
        /\ shows[k].val["name"].val = movie_name
        /\ \A j \in 1..(k - 1) : shows[j].val["name"].val # movie_name

\* C12: within every theater section the aggregates of the theater's movies
\* come, in popularity mode, by descending total_showtimes with ties in the
\* order of first occurrence in the show list, and in release mode by
\* descending released with every empty released behind every known one.
C12_SectionOrder ==
    (pc = "mounted" /\ group_by_theater) =>
        /\ Len(HeaderPositions) = Len(theaters_data)
        /\ \A i \in 1..Len(theaters_data) :
                LET ms == SectionMovies(i)
                    shows == theaters_data[i].shows_data.val["shows"].val
                IN  /\ {ms[k].name : k \in 1..Len(ms)}
                            = {shows[k].val["name"].val : k \in 1..Len(shows)}
                    /\ \A p, q \in 1..Len(ms) :
                            p < q =>
                                IF sort_by_release
                                THEN /\ ~TextLess(ms[p].released.val, ms[q].released.val)
                                     /\ ms[q].released.val # <<>>
                                            => ms[p].released.val # <<>>
                                ELSE /\ ms[p].total_showtimes >= ms[q].total_showtimes
                                     /\ ms[p].total_showtimes = ms[q].total_showtimes
                                            => FirstRecord(shows, ms[p].name)
                                                    < FirstRecord(shows, ms[q].name)

\* Release mode: a section shows a movie of known release date before one of
\* unknown date whose first record precedes it in the show list, although the
\* latter has more showtimes.
C12_Witness ==
    /\ pc = "mounted"
    /\ group_by_theater
    /\ sort_by_release
    /\ Len(theaters_data) >= 1
    /\ LET ms == SectionMovies(1)
            shows == theaters_data[1].shows_data.val["shows"].val
       IN  /\ Len(ms) = 2
           /\ ms[1].released.val # <<>>
           /\ ms[2].released.val = <<>>
           /\ ms[2].total_showtimes > ms[1].total_showtimes
           /\ FirstRecord(shows, ms[2].name) < FirstRecord(shows, ms[1].name)

\* The tables of the by-movie presentation, in order.
MovieTables == SelectSeq(screen, LAMBDA w : w.widget = "MovieTable")

\* The name of the theater a by-movie table is titled with.
TableTheater(w) ==
    LET i == CHOOSE k \in 1..Len(theaters_data) :
                w.text = w.movie.name \o <<" [">> \o theaters_data[k].name \o <<"]">>
    IN  theaters_data[i].name

\* The aggregates on the screen of the movie called movie_name.
Showing(movie_name) ==
    LET tables == SelectSeq(MovieTables, LAMBDA w : w.movie.name = movie_name)
    IN  [k \in 1..Len(tables) |-> tables[k].movie]

RECURSIVE TotalOver(_)
TotalOver(ms) ==
    IF Len(ms) = 0 THEN 0 ELSE Head(ms).total_showtimes + TotalOver(Tail(ms))

\* The latest released among the aggregates (the empty string is the least).
LatestOver(ms) ==
    LET k == CHOOSE i \in 1..Len(ms) :
                \A j \in 1..Len(ms) : ~TextLess(ms[i].released.val, ms[j].released.val)
    IN  ms[k].released.val

\* C13: in the by-movie presentation every theater's aggregate is shown once,
\* the aggregates of one movie name are next to each other in ascending order
\* of theater name, and the movie entries come by descending combined key:
\* the sum of total_showtimes over the theaters showing the movie in
\* popularity mode, the maximum released over them in release mode.
C13_ByMovieGrouping ==
    (pc = "mounted" /\ ~group_by_theater) =>
        LET tables == MovieTables IN
        /\ \A i \in 1..Len(theaters_data) :
                LET ms == _process_theater_shows(global_filter, theaters_data[i].theater,
                                                 theaters_data[i].shows_data,
                                                 theaters_data[i].movies_data)
                IN  \A m \in 1..Len(ms) :
                        Cardinality({k \in 1..Len(tables) :
                                        /\ tables[k].movie = ms[m]
                                        /\ TableTheater(tables[k]) = theaters_data[i].name}) = 1
        /\ \A p, q \in 1..Len(tables) :
                (p < q /\ tables[p].movie.name = tables[q].movie.name) =>
                    /\ \A r \in p..q : tables[r].movie.name = tables[p].movie.name
                    /\ TextLess(TableTheater(tables[p]), TableTheater(tables[q]))
        /\ \A p, q \in 1..Len(tables) :
                p < q =>
                    LET first == Showing(tables[p].movie.name)
                        second == Showing(tables[q].movie.name)
                    IN  IF sort_by_release
                        THEN ~TextLess(LatestOver(first), LatestOver(second))
                        ELSE TotalOver(first) >= TotalOver(second)

\* Popularity mode: a movie shown by both theaters has its tables in the order
\* A, B although B is configured first, and comes before a movie whose single
\* table has more showtimes than its first one.
C13_Witness ==
    /\ pc = "mounted"
    /\ ~group_by_theater
    /\ ~sort_by_release
    /\ Len(MovieTables) = 3
    /\ MovieTables[1].movie.name = MovieTables[2].movie.name
    /\ TableTheater(MovieTables[1]) = <<"A">>
    /\ TableTheater(MovieTables[2]) = <<"B">>
    /\ MovieTables[3].movie.name # MovieTables[1].movie.name
    /\ MovieTables[3].movie.total_showtimes > MovieTables[1].movie.total_showtimes

(***************************************************************************)
(* Claims about the search and the cache writes (checked under SpecFetch)  *)
(***************************************************************************)
\* A list of results, none of them an error marker.
IsResultsList(d) ==
    /\ d.kind = "list"
    /\ \A k \in 1..Len(d.val) : d.val[k].kind = "dict" /\ "error" \notin DOMAIN d.val[k].val

\* The list with exactly one error marker.
IsErrorMarker(d) ==
    /\ d.kind = "list"
    /\ Len(d.val) = 1
    /\ d.val[1].kind = "dict"
    /\ DOMAIN d.val[1].val = {"error"}

\* C14 (checked under SpecFetch): search_theaters_by_city does not raise; what
\* it returns is a results list or the list with exactly one error marker; an
\* error marker differs from an empty result list, and the modal shown for it
\* differs from the one shown for an empty result list.
C14_SearchFailurePolicy ==
    search.op = "search" =>
        /\ search.fetch.st # "raised"
        /\ search.fetch.st = "done" =>
                /\ IsResultsList(search.fetch.data) \/ IsErrorMarker(search.fetch.data)
                /\ IsErrorMarker(search.fetch.data) =>
                        /\ search.fetch.data # PyList(<<>>)
                        /\ search.modal # TheaterResultsModal(PyList(<<>>))

(***************************************************************************)
(* Claims about the runs of the pipeline (checked under Spec)              *)
(***************************************************************************)
\* C15 (checked under Spec): whenever refresh_ui can run, also through a
\* toggle while fetches are in flight, the stored theater results it
\* aggregates are either none at all or hold the result of every configured
\* theater, never those of a strict non-empty subset.
C15_FanIn ==
    UiReady =>
        \/ Len(theaters_data) = 0
        \/ \A i \in 1..Len(theaters) :
                \E k \in 1..Len(theaters_data) : theaters_data[k].theater = theaters[i]

\* A step that toggles the sort key or the grouping.
Toggled ==
    \/ sort_by_release' # sort_by_release
    \/ group_by_theater' # group_by_theater

\* C16 as stated (checked under Spec): a refresh by a toggle is a pipeline run
\* of its own, so that the TheaterResults on display are not carried over: the
\* step fetches anew or replaces the stored results.
C16_RefreshIsRun ==
    [][(Toggled /\ Len(theaters_data) > 0)
            => ~(theaters_data' = theaters_data /\ task' = task)]_vars

\* The aggregates of the stored result of theater entry i, computed anew.
FreshAggregates(i) ==
    _process_theater_shows(global_filter, theaters_data[i].theater,
                           theaters_data[i].shows_data, theaters_data[i].movies_data)

\* C16 as amended: the TheaterResults are created once, by load_showtimes at
\* the initial mount, and a toggle keeps them (it starts no fetch and touches
\* no cache file); every refresh aggregates them anew, so that the content
\* shown is in the current grouping and every MovieAggregate on display is the
\* aggregation of a stored TheaterResult.
C16_RefreshReaggregates ==
    /\ [][Toggled => UNCHANGED <<theaters_data, task, files>>]_vars
    /\ [](pc = "mounted" =>
            /\ \A i \in 1..Len(theaters_data) :
                    \E k \in 1..Len(theaters) :
                        /\ theaters_data[i].theater = theaters[k]
                        /\ theaters_data[i].shows_data = task[k].data
            /\ Len(theaters_data) > 0 =>
                    (group_by_theater <=>
                        \E w \in 1..Len(screen) : screen[w].widget = "TheaterHeader")
            /\ \A w \in 1..Len(screen) :
                    screen[w].widget = "MovieTable" =>
                        \E i \in 1..Len(theaters_data) :
                            \E m \in 1..Len(FreshAggregates(i)) :
                                screen[w].movie = FreshAggregates(i)[m])

\* After the mount a toggle has put the stored results into the by-movie
\* grouping: the tables show the aggregates of the results fetched at mount.
C16_Witness ==
    /\ pc = "mounted"
    /\ ~group_by_theater
    /\ Len(theaters_data) > 0
    /\ \E w \in 1..Len(screen) : screen[w].widget = "MovieTable"
    /\ \A i \in 1..Len(task) : task[i].st = "done"

(***************************************************************************)
(* Further claims about the aggregation (checked under SpecAgg)            *)
(***************************************************************************)
\* The value under key when it is there and not empty, else the empty string.
NonEmptyOr(d, key, other) ==
    IF key \in DOMAIN d.val /\ d.val[key].kind = "str" /\ d.val[key].val # <<>>
    THEN d.val[key]
    ELSE other

\* C17: the fields duration, movieId, details and released of a MovieAggregate
\* are those derived from the first unfiltered ShowRecord of its name in list
\* order, whatever the later records hold; released is the value of the
\* movie-detail lookup when not empty, else the first record's own released
\* when not empty, else empty.
C17_Seeding ==
    agg_out.op = "movies" =>
        \A i \in 1..Len(agg_out.movies) :
            LET m == agg_out.movies[i]
                first == AggUnfiltered[FirstRecord(AggUnfiltered, m.name)]
                lookup == agg_in.shows_data.val["movies"].val
                id == IF first.val["movieId"].kind = "int"
                      THEN IntToStr(first.val["movieId"].val)
                      ELSE first.val["movieId"].val
                details == IF \E key \in DOMAIN lookup : key = Cat(id)
                           THEN lookup[Cat(id)]
                           ELSE PyDict(<<>>)
            IN  /\ m.duration = first.val["duration"]
                /\ m.movieId = id
                /\ m.details = details
                /\ m.released
                        = NonEmptyOr(details, "released",
                                     NonEmptyOr(first, "released", PyStr(<<>>)))

\* An aggregate of two records or more, one of which has another duration
\* and another movie id than the aggregate, whose released comes from the
\* movie-detail lookup; and an aggregate whose released is its first
\* record's own.
C17_Witness ==
    /\ agg_out.op = "movies"
    /\ \E i \in 1..Len(agg_out.movies) :
            LET m == agg_out.movies[i] IN
            /\ m.total_showtimes >= 2
            /\ m.released = PyStr(<<"2", "0">>)
            /\ \E k \in 1..Len(AggUnfiltered) :
                    /\ AggUnfiltered[k].val["name"].val = m.name
                    /\ AggUnfiltered[k].val["duration"] # m.duration
                    /\ Str(AggUnfiltered[k].val["movieId"]) # m.movieId
    /\ \E i \in 1..Len(agg_out.movies) :
            agg_out.movies[i].released = PyStr(<<"1", "8">>)

(***************************************************************************)
(* Claims about the cache under the fetches (checked under SpecFetch)      *)
(***************************************************************************)
\* A run for the key started now is a cache miss that issues a request.
NextRunMisses(prefix, arg) ==
    LET next == FetchStart(files, prefix, arg, now).fetch
    IN  next.st = "awaiting" /\ next.sent = 1

\* C18 as stated: when load_showtimes_for_theater has returned the error
\* placeholder, or search_theaters_by_city the error marker, the cache file of
\* the key is what it was before the call, and the next run for the key is a
\* cache miss that issues a request.
C18_FailedFetchKeepsCache ==
    /\ \A i \in 1..Len(task) :
            (task[i].st = "done" /\ IsErrorPlaceholder(task[i].data)) =>
                /\ task[i].after = task[i].before
                /\ NextRunMisses(Chars_showtimes, theaters[i].cinema_id)
    /\ (search.op = "search" /\ search.fetch.st = "done"
            /\ IsErrorMarker(search.fetch.data)) =>
                /\ search.fetch.after = search.fetch.before
                /\ NextRunMisses(Chars_theater_search, PyStr(Lower(search.city)))

\* The call wrote nothing: it left the file as it was, or its Cache.get
\* deleted a file that held no unexpired entry.
NothingWritten(f) ==
    \/ f.after = f.before
    \/ f.after = NoFile /\ ~HoldsUnexpired(f.before, f.at)

\* C18 as amended: a failed fetch writes nothing to the cache: after it the
\* cache file of the key is what it was before the call, or is gone because the
\* call's own Cache.get deleted an expired or unreadable file; the next run for
\* the key is a cache miss that issues a request.
C18_FailedFetchWritesNothing ==
    /\ \A i \in 1..Len(task) :
            (task[i].st = "done" /\ IsErrorPlaceholder(task[i].data)) =>
                /\ NothingWritten(task[i])
                /\ NextRunMisses(Chars_showtimes, theaters[i].cinema_id)
    /\ (search.op = "search" /\ search.fetch.st = "done"
            /\ IsErrorMarker(search.fetch.data)) =>
                /\ NothingWritten(search.fetch)
                /\ NextRunMisses(Chars_theater_search, PyStr(Lower(search.city)))

\* The theater's fetch failed after its Cache.get had deleted the expired
\* entry, and a search failed over an absent file.
C18_Witness ==
    /\ Len(task) = 1
    /\ task[1].st = "done"
    /\ IsErrorPlaceholder(task[1].data)
    /\ task[1].before # NoFile
    /\ task[1].after = NoFile
    /\ search.op = "search"
    /\ search.fetch.st = "done"
    /\ IsErrorMarker(search.fetch.data)
    /\ search.fetch.before = NoFile

\* The fetch returned a payload it found in the cache.
ServedFromCache(f) == f.st = "done" /\ f.sent = 0

\* What C19 states of one fetch.
NotSliding(f) ==
    /\ ServedFromCache(f) =>
            /\ f.after = f.before
            /\ HoldsUnexpired(f.before, f.at)
            /\ f.before.doc.val["timestamp"].val <= f.at
            /\ f.data = f.before.doc.val["data"]
    /\ IsExpiredEntry(f.before, f.at) => (f.sent = 1 /\ f.after # f.before)
    /\ (f.st = "done" /\ f.wrote = "ok") =>
            /\ f.after.doc.val["timestamp"].val >= f.at
            /\ f.after.doc.val["timestamp"].val <= now

\* C19 (checked under SpecFetch): a Cache.get that returns a payload leaves
\* the file of the entry, timestamp and data, as it was; an entry whose
\* timestamp (the time of the set that stored it) lies more than 3600 s back
\* is not returned; and every payload a fetch serves from the cache was
\* stored, on its arrival from the network, at most 3600 s earlier.
C19_NoSlidingExpiration ==
    /\ \A i \in 1..Len(task) : NotSliding(task[i])
    /\ search.op = "search" => NotSliding(search.fetch)

\* A search served from the cache exactly 3600 s after the entry was stored.
C19_Witness ==
    /\ search.op = "search"
    /\ ServedFromCache(search.fetch)
    /\ search.fetch.at - search.fetch.before.doc.val["timestamp"].val = CACHE_DURATION
    /\ search.fetch.after = search.fetch.before

====
